---- MODULE Spec2Model ----
(***************************************************************************)
(* Model of transportation/emissions-model.ipynb: the emission table       *)
(* kgco2e_per_km, the function recalc and the three ipywidgets controls    *)
(* bound to it by interactive_output.                                      *)
(*                                                                         *)
(* Python floats are IEEE-754 binary64 values.  They are modelled exactly: *)
(* a float is a record [sign, mant, exp] whose value is                    *)
(*     (-1)^sign * (mant[1] * 2^36 + mant[2] * 2^18 + mant[3]) * 2^exp     *)
(* where mant holds the 53-bit significand as three limbs of 17, 18 and 18 *)
(* bits, most significant first (mant[1] >= 2^16), and zero is             *)
(* mant = <<>>, exp = 0.  Every arithmetic operation rounds to nearest,    *)
(* ties to even, as the hardware does.  Exponents stay far inside the      *)
(* binary64 range for the values of this program, so subnormals,           *)
(* infinities and NaN never arise.                                         *)
(***************************************************************************)
EXTENDS Integers, Sequences, FiniteSets, TLC

\* ------------------------------------------------------------------------
\* Bounds of the direct-call specification (not program constants)
\* ------------------------------------------------------------------------
MaxCallDistance == 4
MaxNegativePassengers == 1
MaxCallPassengers == 3

\* ------------------------------------------------------------------------
\* binary64 arithmetic
\* ------------------------------------------------------------------------
Precision == 53
\* bits per limb of the multi-word operations below; a small operand
\* (multiplier, divisor, numerator) must stay below 2^(31 - LimbBits)
LimbBits == 18

Base == 2^LimbBits

BitLen(n) == CHOOSE w \in 0..30 : n < 2^w /\ (w = 0 \/ n >= 2^(w - 1))

\* the limb of weight Base^j of the natural number with limbs N
LimbAt(N, j) == IF j < Len(N) THEN N[Len(N) - j] ELSE 0

\* bits lo .. lo+w-1 of N (bit 0 is the lowest), for w <= LimbBits
Field(N, lo, w) ==
    LET j    == lo \div LimbBits
        off  == lo % LimbBits
        low  == LimbAt(N, j) \div 2^off
        high == (LimbAt(N, j + 1) % 2^off) * 2^(LimbBits - off)
    IN  (low + high) % 2^w

\* some bit among the cnt lowest bits of N is set
LowNonZero(N, cnt) ==
    \/ \E i \in 0..((cnt \div LimbBits) - 1) : LimbAt(N, i) # 0
    \/ LimbAt(N, cnt \div LimbBits) % 2^(cnt % LimbBits) # 0

\* number of bits of N
BitLenL(N) ==
    IF \A i \in 1..Len(N) : N[i] = 0 THEN 0
    ELSE LET top == CHOOSE i \in 1..Len(N) :
                        N[i] # 0 /\ \A j \in 1..(i - 1) : N[j] = 0
         IN  LimbBits * (Len(N) - top) + BitLen(N[top])

\* M * k for a three-limb M and a small natural k, as four limbs
MulLimbs(M, k) ==
    LET t3 == M[3] * k
        t2 == M[2] * k + t3 \div Base
        t1 == M[1] * k + t2 \div Base
    IN  <<t1 \div Base, t1 % Base, t2 % Base, t3 % Base>>

\* long division of (r, N) by a small natural d > r: quotient limbs (as many
\* as N has) and remainder
RECURSIVE DivLimbs(_, _, _)
DivLimbs(N, d, r) ==
    IF N = <<>> THEN [q |-> <<>>, r |-> r]
    ELSE LET t    == r * Base + Head(N)
             rest == DivLimbs(Tail(N), d, t % d)
         IN  [q |-> <<t \div d>> \o rest.q, r |-> rest.r]

\* M + 1 for a three-limb M (the first limb may reach 2^17)
IncLimbs(M) ==
    IF M[3] + 1 < Base THEN <<M[1], M[2], M[3] + 1>>
    ELSE IF M[2] + 1 < Base THEN <<M[1], M[2] + 1, 0>>
    ELSE <<M[1] + 1, 0, 0>>

FZero(s) == [sign |-> s, mant |-> <<>>, exp |-> 0]

\* the binary64 nearest to (-1)^s * (N + fraction) * 2^e, ties to even, where
\* N # 0 and 0 <= fraction < 1 is nonzero exactly if inexact holds; an
\* inexact N has more than Precision bits
RoundLimbs(s, N, inexact, e) ==
    LET short  == BitLenL(N) <= Precision
        NN     == IF short THEN N \o <<0, 0, 0>> ELSE N
        ee     == IF short THEN e - 3 * LimbBits ELSE e
        sh     == BitLenL(NN) - Precision
        m      == <<Field(NN, sh + 2 * LimbBits, Precision - 2 * LimbBits),
                    Field(NN, sh + LimbBits, LimbBits),
                    Field(NN, sh, LimbBits)>>
        half   == Field(NN, sh - 1, 1)
        sticky == LowNonZero(NN, sh - 1) \/ inexact
        up     == half = 1 /\ (sticky \/ m[3] % 2 = 1)
        m1     == IF up THEN IncLimbs(m) ELSE m
    IN  IF m1[1] = 2^(Precision - 2 * LimbBits)
        THEN [sign |-> s, mant |-> <<m1[1] \div 2, 0, 0>>, exp |-> ee + sh + 1]
        ELSE [sign |-> s, mant |-> m1, exp |-> ee + sh]

\* Python: n / d for ints n >= 0, d >= 1 (true division, correctly rounded);
\* also the value of the decimal literal n/d
FromRatio(n, d) ==
    IF n = 0 THEN FZero(0)
    ELSE LET dv == DivLimbs(<<n, 0, 0, 0, 0>>, d, 0)
         IN  RoundLimbs(0, dv.q, dv.r # 0, -4 * LimbBits)

FromInt(n) == FromRatio(n, 1)

\* Python: x * k for a float x and an int k >= 0
FMulInt(x, k) ==
    IF x.mant = <<>> \/ k = 0 THEN FZero(x.sign)
    ELSE RoundLimbs(x.sign, MulLimbs(x.mant, k), FALSE, x.exp)

\* Python: x / p for a float x and an int p # 0
FDivInt(x, p) ==
    LET s  == IF p < 0 THEN 1 - x.sign ELSE x.sign
        d  == IF p < 0 THEN -p ELSE p
        dv == DivLimbs(x.mant \o <<0>>, d, 0)
    IN  IF x.mant = <<>> THEN FZero(s)
        ELSE RoundLimbs(s, dv.q, dv.r # 0, x.exp - LimbBits)

\* the next binary64 above a positive x
FNextUp(x) ==
    LET m1 == IncLimbs(x.mant)
    IN  IF m1[1] = 2^(Precision - 2 * LimbBits)
        THEN [sign |-> x.sign, mant |-> <<m1[1] \div 2, 0, 0>>, exp |-> x.exp + 1]
        ELSE [sign |-> x.sign, mant |-> m1, exp |-> x.exp]

LimbsLess(a, b) ==
    \/ a[1] < b[1]
    \/ a[1] = b[1] /\ a[2] < b[2]
    \/ a[1] = b[1] /\ a[2] = b[2] /\ a[3] < b[3]

\* |a| < |b|
MagLess(a, b) ==
    IF b.mant = <<>> THEN FALSE
    ELSE IF a.mant = <<>> THEN TRUE
    ELSE \/ a.exp < b.exp
         \/ a.exp = b.exp /\ LimbsLess(a.mant, b.mant)

\* Python: a < b
FLess(a, b) ==
    LET an == a.sign = 1 /\ a.mant # <<>>
        bn == b.sign = 1 /\ b.mant # <<>>
    IN  IF an /\ bn THEN MagLess(b, a)
        ELSE IF an THEN TRUE
        ELSE IF bn THEN FALSE
        ELSE MagLess(a, b)

\* Python: a == b  (0.0 == -0.0)
FEq(a, b) == ~FLess(a, b) /\ ~FLess(b, a)

FLeq(a, b) == ~FLess(b, a)

\* Python: f"{v:.1f}" -- the exact binary value rounded to one decimal,
\* ties to even, with the sign of v kept (for 2^-72 < |v| < 2^26)
Format1f(v) ==
    LET neg    == IF v.sign = 1 THEN "-" ELSE ""
        f      == -v.exp
        P      == MulLimbs(v.mant, 10)
        ip     == Field(P, f, LimbBits) + Field(P, f + LimbBits, 12) * Base
        half   == Field(P, f - 1, 1)
        sticky == LowNonZero(P, f - 1)
        tenths == IF half = 1 /\ (sticky \/ ip % 2 = 1) THEN ip + 1 ELSE ip
    IN  IF v.mant = <<>> THEN neg \o "0.0"
        ELSE neg \o ToString(tenths \div 10) \o "." \o ToString(tenths % 10)

\* ------------------------------------------------------------------------
\* Emission table
\* ------------------------------------------------------------------------
\* g CO2e / pkm <<OWID, PSI>>; 0 means no data
gco2e_per_km ==
    [mode \in {"bicycle", "coach bus", "gasoline car", "electric car",
               "motorbike", "tgv", "rail UK", "rail CH", "tram",
               "flight short", "flight long"} |->
        CASE mode = "bicycle"      -> <<0, 6>>
          [] mode = "coach bus"    -> <<27, 57>>
          [] mode = "gasoline car" -> <<170, 242>>
          [] mode = "electric car" -> <<48, 110>>
          [] mode = "motorbike"    -> <<114, 163>>
          [] mode = "tgv"          -> <<4, 21>>
          [] mode = "rail UK"      -> <<35, 0>>
          [] mode = "rail CH"      -> <<0, 7>>
          [] mode = "tram"         -> <<29, 43>>
          [] mode = "flight short" -> <<246, 292>>
          [] mode = "flight long"  -> <<253, 285>>]

\* {k: [v[0] / 1000, v[1] / 1000] for k, v in gco2e_per_km.items()}
KgTableDropsTram ==
    [k \in DOMAIN gco2e_per_km \ {"tram"} |->
        <<FromRatio(gco2e_per_km[k][1], 1000), FromRatio(gco2e_per_km[k][2], 1000)>>]

KgTable ==
    [k \in DOMAIN gco2e_per_km |->
        <<FromRatio(gco2e_per_km[k][1], 1000), FromRatio(gco2e_per_km[k][2], 1000)>>]

\* ------------------------------------------------------------------------
\* Controls
\* ------------------------------------------------------------------------
ModelOptions == {"OWID", "PSI"}
ModelInitial == "PSI"

DistanceMin == 0
DistanceMaxWide == 5 * 100
DistanceMax == 400
DistanceStep == 10
DistanceInitial == 200

PassengersMinZero == 1 - 1
PassengersMin == 1
PassengersMax == 5
PassengersStep == 1
PassengersInitial == 1

\* the values an IntSlider(min, max, step) can be moved to
SliderValues(min, max, step) ==
    {v \in min..max : (v - min) % step = 0}

\* ------------------------------------------------------------------------
\* State
\* ------------------------------------------------------------------------
VARIABLES
    kgco2e_per_km,          \* the module-level emission table (a dict)
    radio_model,            \* radio_model.value
    slider_distance_km,     \* slider_distance_km.value
    slider_car_passengers,  \* slider_car_passengers.value
    output,                 \* what the Output widget `output` shows
    args,                   \* arguments of the latest call of recalc
    data,                   \* the dict `data` built by that call
    raised                  \* the exception that call raised, or "none"

vars == <<kgco2e_per_km, radio_model, slider_distance_km,
          slider_car_passengers, output, args, data, raised>>

\* ------------------------------------------------------------------------
\* recalc
\* ------------------------------------------------------------------------
\* the keys of `data`, in insertion order
OutputModes ==
    <<"bicycle", "coach bus", "gasoline car", "electric car", "motorbike", "rail CH">>

\* idx = 0 if model == 'OWID' else 1   (sequences are 1-based here)
IdxSwapped(model) == IF model = "OWID" THEN 2 ELSE 1

Idx(model) == IF model = "OWID" THEN 1 ELSE 2

\* the dict literal `data` of recalc, for car_passangers # 0
RecalcDataMotorbikeShared(table, model, distance_km, car_passangers) ==
    LET idx == Idx(model)
    IN  [mode \in {OutputModes[i] : i \in 1..Len(OutputModes)} |->
            CASE mode = "bicycle"      -> FMulInt(table["bicycle"][idx], distance_km)
              [] mode = "coach bus"    -> FMulInt(table["coach bus"][idx], distance_km)
              [] mode = "gasoline car" -> FDivInt(FMulInt(table["gasoline car"][idx], distance_km), car_passangers)
              [] mode = "electric car" -> FDivInt(FMulInt(table["electric car"][idx], distance_km), car_passangers)
              [] mode = "motorbike"    -> FDivInt(FMulInt(table["motorbike"][idx], distance_km), car_passangers)
              [] mode = "rail CH"      -> FMulInt(table["rail CH"][idx], distance_km)]

RecalcDataRailPerKm(table, model, distance_km, car_passangers) ==
    LET idx == Idx(model)
    IN  [mode \in {OutputModes[i] : i \in 1..Len(OutputModes)} |->
            CASE mode = "bicycle"      -> FMulInt(table["bicycle"][idx], distance_km)
              [] mode = "coach bus"    -> FMulInt(table["coach bus"][idx], distance_km)
              [] mode = "gasoline car" -> FDivInt(FMulInt(table["gasoline car"][idx], distance_km), car_passangers)
              [] mode = "electric car" -> FDivInt(FMulInt(table["electric car"][idx], distance_km), car_passangers)
              [] mode = "motorbike"    -> FMulInt(table["motorbike"][idx], distance_km)
              [] mode = "rail CH"      -> table["rail CH"][idx]]

RecalcData(table, model, distance_km, car_passangers) ==
    LET idx == Idx(model)
    IN  [mode \in {OutputModes[i] : i \in 1..Len(OutputModes)} |->
            CASE mode = "bicycle"      -> FMulInt(table["bicycle"][idx], distance_km)
              [] mode = "coach bus"    -> FMulInt(table["coach bus"][idx], distance_km)
              [] mode = "gasoline car" -> FDivInt(FMulInt(table["gasoline car"][idx], distance_km), car_passangers)
              [] mode = "electric car" -> FDivInt(FMulInt(table["electric car"][idx], distance_km), car_passangers)
              [] mode = "motorbike"    -> FMulInt(table["motorbike"][idx], distance_km)
              [] mode = "rail CH"      -> FMulInt(table["rail CH"][idx], distance_km)]

\* the rows of table_html after its header: one (k, f"{v:.1f}") per item
TableHTML(d) ==
    [kind |-> "table",
     rows |-> [i \in 1..Len(OutputModes) |->
                  <<OutputModes[i], Format1f(d[OutputModes[i]])>>]]

\* plt.bar(labels, values) with plt.ylim(0, 100)
YLimLow == 0
YLimHigh == 100

Figure(d) ==
    [kind   |-> "figure",
     labels |-> OutputModes,
     values |-> [i \in 1..Len(OutputModes) |-> d[OutputModes[i]]],
     ylim   |-> <<YLimLow, YLimHigh>>]

\* the body of `with output:`: clear_output(), display(HTML(..)), plt.show()
RenderIntoNoClear(shown, d) ==
    Append(Append(shown, TableHTML(d)), Figure(d))

RenderInto(shown, d) ==
    LET cleared == <<>>
    IN  Append(Append(cleared, TableHTML(d)), Figure(d))

NoData == <<>>

\* one call recalc(model, distance_km, car_passangers)
recalc(model, distance_km, car_passangers) ==
    /\ args' = [model |-> model, distance_km |-> distance_km,
                car_passangers |-> car_passangers]
    /\ IF car_passangers = 0
       THEN \* float / 0 raises while `data` is being built
            /\ raised' = "ZeroDivisionError"
            /\ data' = NoData
            /\ output' = output
       ELSE LET d == RecalcData(kgco2e_per_km, model, distance_km, car_passangers)
            IN  /\ raised' = "none"
                /\ data' = d
                /\ output' = RenderInto(output, d)
    /\ kgco2e_per_km' = kgco2e_per_km

\* ------------------------------------------------------------------------
\* interactive_output(recalc, {...}): every change of a control value calls
\* recalc with the current values of the three controls
\* ------------------------------------------------------------------------
ObserverMiswired(model, distance_km, car_passangers) ==
    recalc(model, car_passangers, distance_km)

Observer(model, distance_km, car_passangers) ==
    recalc(model, distance_km, car_passangers)

SetModel ==
    \E v \in ModelOptions \ {radio_model} :
        /\ radio_model' = v
        /\ UNCHANGED <<slider_distance_km, slider_car_passengers>>
        /\ Observer(v, slider_distance_km, slider_car_passengers)

SetDistance ==
    \E v \in SliderValues(DistanceMin, DistanceMax, DistanceStep) \ {slider_distance_km} :
        /\ slider_distance_km' = v
        /\ UNCHANGED <<radio_model, slider_car_passengers>>
        /\ Observer(radio_model, v, slider_car_passengers)

SetPassengers ==
    \E v \in SliderValues(PassengersMin, PassengersMax, PassengersStep) \ {slider_car_passengers} :
        /\ slider_car_passengers' = v
        /\ UNCHANGED <<radio_model, slider_distance_km>>
        /\ Observer(radio_model, slider_distance_km, v)

\* the state once the last cell has run: interactive_output has called recalc
\* once with the initial control values
Init ==
    /\ kgco2e_per_km = KgTable
    /\ radio_model = ModelInitial
    /\ slider_distance_km = DistanceInitial
    /\ slider_car_passengers = PassengersInitial
    /\ args = [model |-> ModelInitial, distance_km |-> DistanceInitial,
               car_passangers |-> PassengersInitial]
    /\ raised = "none"
    /\ data = RecalcData(KgTable, ModelInitial, DistanceInitial, PassengersInitial)
    /\ output = RenderInto(<<>>, RecalcData(KgTable, ModelInitial, DistanceInitial,
                                            PassengersInitial))

Next == SetModel \/ SetDistance \/ SetPassengers

Spec == Init /\ [][Next]_vars

\* ------------------------------------------------------------------------
\* recalc called directly, with arguments the controls need not allow
\* ------------------------------------------------------------------------
CallRecalc ==
    \E m \in ModelOptions, k \in 0..MaxCallDistance,
       p \in (-MaxNegativePassengers)..MaxCallPassengers :
        /\ recalc(m, k, p)
        /\ UNCHANGED <<radio_model, slider_distance_km, slider_car_passengers>>

NextCall == CallRecalc

SpecCall == Init /\ [][NextCall]_vars

\* ------------------------------------------------------------------------
\* Properties
\* ------------------------------------------------------------------------
SixModes ==
    {"bicycle", "coach bus", "gasoline car", "electric car", "motorbike", "rail CH"}

ElevenModes ==
    {"bicycle", "coach bus", "gasoline car", "electric car", "motorbike",
     "tgv", "rail UK", "rail CH", "tram", "flight short", "flight long"}

\* the table entry of a mode under a dataset: first factor OWID, second PSI
Factor(mode, dataset) ==
    IF dataset = "OWID" THEN kgco2e_per_km[mode][1] ELSE kgco2e_per_km[mode][2]

Called(m, k, p) ==
    args = [model |-> m, distance_km |-> k, car_passangers |-> p]

\* C1: after a call of recalc with distance k >= 0 and occupancy p >= 1 the
\* result has exactly the six output modes, each value is the table factor of
\* the chosen dataset times k, divided by p for the two car modes only, and
\* every value is >= 0.
C1_ResultFormula ==
    (raised = "none" /\ args.car_passangers >= 1) =>
        /\ DOMAIN data = SixModes
        /\ \A mode \in SixModes :
              /\ data[mode] =
                    IF mode \in {"gasoline car", "electric car"}
                    THEN FDivInt(FMulInt(Factor(mode, args.model), args.distance_km),
                                 args.car_passangers)
                    ELSE FMulInt(Factor(mode, args.model), args.distance_km)
              /\ FLeq(FZero(0), data[mode])

C1_Witness ==
    /\ raised = "none"
    /\ args.model = "OWID"
    /\ args.distance_km = 3
    /\ args.car_passangers = 2
    /\ DOMAIN data = SixModes
    /\ FLess(FZero(0), data["motorbike"])

\* C2: after a call of recalc with distance k > 0 and occupancy p >= 1, every
\* larger occupancy gives strictly smaller values for the two car modes and
\* the same values for the four other modes.
C2_OccupancyMonotone ==
    (raised = "none" /\ args.car_passangers >= 1 /\ args.distance_km > 0) =>
        \A p2 \in (args.car_passangers + 1)..(MaxCallPassengers + 1) :
            LET more == RecalcData(kgco2e_per_km, args.model, args.distance_km, p2)
            IN  /\ FLess(more["gasoline car"], data["gasoline car"])
                /\ FLess(more["electric car"], data["electric car"])
                /\ \A mode \in SixModes \ {"gasoline car", "electric car"} :
                      more[mode] = data[mode]

C2_Witness ==
    /\ raised = "none"
    /\ args.car_passangers = 2
    /\ args.distance_km = 1
    /\ args.model = "PSI"
    /\ FLess(RecalcData(kgco2e_per_km, "PSI", 1, 3)["electric car"], data["electric car"])

\* C3: a call of recalc with occupancy 0 or negative raises InvalidInput and
\* builds no result.
C3_InvalidInputRaised ==
    args.car_passangers <= 0 => (raised = "InvalidInput" /\ data = NoData)

\* C4: under control changes only, recalc is always called with occupancy
\* >= 1 and never raises ZeroDivisionError.
C4_OccupancyAtLeastOne ==
    /\ slider_car_passengers >= 1
    /\ args.car_passangers >= 1
    /\ raised = "none"

C4_Witness ==
    /\ radio_model = "OWID"
    /\ slider_distance_km = 0
    /\ slider_car_passengers = 1
    /\ args.car_passangers = 1
    /\ raised = "none"

\* C5: the output area always holds exactly one table and one bar chart;
\* after a successful call they are those of that call's inputs, and calling
\* recalc again with the same inputs leaves the output area as it is.
C5_RenderIdempotent ==
    /\ Len(output) = 2
    /\ output[1].kind = "table"
    /\ output[2].kind = "figure"
    /\ raised = "none" =>
          /\ output = <<TableHTML(data), Figure(data)>>
          /\ RenderInto(output, RecalcData(kgco2e_per_km, args.model, args.distance_km,
                                           args.car_passangers)) = output

C5_Witness ==
    /\ raised = "none"
    /\ Called("OWID", 4, 3)
    /\ output = <<TableHTML(data), Figure(data)>>
    /\ output[1].rows[3] = <<"gasoline car", "0.2">>

\* C6 as stated: the worked values are the exact results.
C6_WorkedValuesExact ==
    /\ Called("PSI", 200, 1) => data["gasoline car"] = FromRatio(484, 10)
    /\ Called("OWID", 200, 1) => data["gasoline car"] = FromRatio(340, 10)
    /\ Called("PSI", 100, 1) =>
          /\ data["bicycle"] = FromRatio(6, 10)
          /\ data["rail CH"] = FromRatio(7, 10)
          /\ data["electric car"] = FromInt(11)
    /\ Called("PSI", 100, 4) => data["electric car"] = FromRatio(275, 100)

\* C6 amended: the worked values are the exact results except rail CH at
\* k=100, p=1 under PSI, which is 0.7000000000000001, the float next above
\* 0.7, and is shown as 0.7 in the table.
C6_WorkedValues ==
    /\ Called("PSI", 200, 1) => data["gasoline car"] = FromRatio(484, 10)
    /\ Called("OWID", 200, 1) => data["gasoline car"] = FromRatio(340, 10)
    /\ Called("PSI", 100, 1) =>
          /\ data["bicycle"] = FromRatio(6, 10)
          /\ data["rail CH"] = FNextUp(FromRatio(7, 10))
          /\ output[1].rows[6] = <<"rail CH", "0.7">>
          /\ data["electric car"] = FromInt(11)
    /\ Called("PSI", 100, 4) => data["electric car"] = FromRatio(275, 100)

C6_Witness ==
    /\ Called("PSI", 100, 1)
    /\ data["rail CH"] = FNextUp(FromRatio(7, 10))
    /\ data["electric car"] = FromInt(11)

\* C7: a call of recalc with distance 0 and occupancy p >= 1 gives 0 for every
\* mode of the result.
C7_ZeroDistance ==
    (raised = "none" /\ args.car_passangers >= 1 /\ args.distance_km = 0) =>
        \A mode \in DOMAIN data : FEq(data[mode], FZero(0))

C7_Witness ==
    /\ raised = "none"
    /\ Called("PSI", 0, 3)
    /\ FEq(data["electric car"], FZero(0))
    /\ FEq(data["rail CH"], FZero(0))

\* C8: the emission table always has exactly the eleven modes, each with a
\* pair of non-negative factors, and no step changes it.
C8_TableReadOnly ==
    /\ [](/\ DOMAIN kgco2e_per_km = ElevenModes
          /\ \A mode \in DOMAIN kgco2e_per_km :
                /\ Len(kgco2e_per_km[mode]) = 2
                /\ FLeq(FZero(0), kgco2e_per_km[mode][1])
                /\ FLeq(FZero(0), kgco2e_per_km[mode][2]))
    /\ [][kgco2e_per_km' = kgco2e_per_km]_vars

C8_Witness ==
    /\ radio_model = "OWID"
    /\ slider_distance_km = 400
    /\ slider_car_passengers = 3
    /\ raised = "none"
    /\ kgco2e_per_km["tram"] = <<FromRatio(29, 1000), FromRatio(43, 1000)>>

\* C9: initially and after every control change the latest call of recalc
\* was made with the current values of the three controls, and the table and
\* chart shown are the ones of those values.
C9_RenderedIsCurrent ==
    LET d == RecalcData(kgco2e_per_km, radio_model, slider_distance_km,
                        slider_car_passengers)
    IN  /\ Called(radio_model, slider_distance_km, slider_car_passengers)
        /\ raised = "none"
        /\ data = d
        /\ output = <<TableHTML(d), Figure(d)>>

C9_Witness ==
    /\ radio_model = "OWID"
    /\ slider_distance_km = 390
    /\ slider_car_passengers = 5
    /\ Called("OWID", 390, 5)
    /\ output[1].rows[5] = <<"motorbike", "44.5">>

\* C10: under control changes only, every bar of the chart lies within the
\* chart's vertical range.
C10_BarsWithinYLim ==
    LET fig == output[2]
    IN  \A i \in 1..Len(fig.values) :
            /\ FLeq(FromInt(fig.ylim[1]), fig.values[i])
            /\ FLeq(fig.values[i], FromInt(fig.ylim[2]))

C10_Witness ==
    /\ Called("PSI", 400, 1)
    /\ FLess(FromInt(96), output[2].values[3])
    /\ FLeq(output[2].values[3], FromInt(100))

====
